---- MODULE Spec2Model ----
(***************************************************************************)
(* Model of internal/video_processing.py (class VideoProcessing): the      *)
(* frame reduction pipeline process(), its transcoder thread               *)
(* convert_to_jpeg(), the adaptive capper cap_frame_count() and the        *)
(* windowed sampler sample_frames().                                       *)
(*                                                                         *)
(* A frame is the index of its file in the filename-sorted listing of the  *)
(* initial directory, so sorted(glob('ms_*.png')) is the ascending         *)
(* sequence of the frames still present.  frame_ms[f] is the timestamp the *)
(* sampler's pattern ms_([0-9]+)\. finds in the name of f, or NoTs when    *)
(* the name does not match the pattern.                                    *)
(***************************************************************************)
EXTENDS Integers, Sequences, FiniteSets, TLC

\* ---------------------------------------------------------------- bounds
\* longest directory enumerated exhaustively for process()
MaxLen == 3
\* longest directory enumerated exhaustively for cap_frame_count / sample_frames
MaxCapLen == 5
\* largest maxframes given to cap_frame_count by the harness
MaxTarget == 3
\* largest skip_frames given to sample_frames by the harness
MaxSkip == 2

\* ----------------------------------------------------- program constants
\* process(): self.cap_frame_count(self.video_path, 50)
ProcessMaxFrames == 50
\* process(): self.frames_match(baseline, files[index], 1, 0)
MaxDifferences == 0
\* sample_frames(): if frame_count > 3
SampleMinFrames == 3

\* a filename in which the sampler's pattern finds no timestamp
NoTs == -1
\* stderr of `compare` that is not a number (the tool failed)
DiffFailed == -1
\* last_bucket = None
None == -1

\* ------------------------------------------------------------- helpers
Range(s) == {s[i] : i \in 1..Len(s)}

\* the members of S within i..n in ascending order (the range is halved to
\* keep the evaluation shallow on long directories)
RECURSIVE SortedFrom(_, _, _)
SortedFrom(S, i, n) ==
    IF i > n THEN <<>>
    ELSE IF i = n THEN (IF i \in S THEN <<i>> ELSE <<>>)
    ELSE LET mid == (i + n) \div 2
         IN  SortedFrom(S, i, mid) \o SortedFrom(S, mid + 1, n)

\* mutant: the bucket is the nearest multiple of the interval
BucketRounded(frame_time, interval) ==
    (frame_time + interval \div 2) \div interval

\* floor division of non-negative integers (Python 2 int / int, math.floor)
Bucket(frame_time, interval) == frame_time \div interval

\* mutant: the passes are given no keep quota
SkipFramesNone(maxframes, k) == 0 * maxframes * k

\* int(maxframes * 0.2), int(maxframes * 0.4), int(maxframes * 0.6)
SkipFrames(maxframes, k) == (maxframes * 2 * k) \div 10

\* mutant: the second and third pass exchanged
PassParamsSwapped(k, maxframes) ==
    CASE k = 1 -> [interval |-> 100, start_ms |-> 0,
                   skip_frames |-> SkipFrames(maxframes, 1)]
      [] k = 2 -> [interval |-> 1000, start_ms |-> 10000,
                   skip_frames |-> SkipFrames(maxframes, 3)]
      [] k = 3 -> [interval |-> 500, start_ms |-> 5000,
                   skip_frames |-> SkipFrames(maxframes, 2)]

\* the three passes of cap_frame_count: interval, start_ms, skip_frames
PassParams(k, maxframes) ==
    CASE k = 1 -> [interval |-> 100, start_ms |-> 0,
                   skip_frames |-> SkipFrames(maxframes, 1)]
      [] k = 2 -> [interval |-> 500, start_ms |-> 5000,
                   skip_frames |-> SkipFrames(maxframes, 2)]
      [] k = 3 -> [interval |-> 1000, start_ms |-> 10000,
                   skip_frames |-> SkipFrames(maxframes, 3)]

\* mutant: the third pass left out
MaxPassesTwo == 1 + 1

\* number of passes cap_frame_count can run (three nested ifs)
MaxPasses == 3

\* mutant: stderr is not checked to be a number
FramesMatchUnchecked(err, max_differences) == err <= max_differences

\* frames_match(): re.match('^[0-9]+$', err) and int(err) <= max_differences
frames_match(err, max_differences) ==
    /\ err >= 0
    /\ err <= max_differences

\* mutant: the duplicate eliminator run before the capper
StageOrderDedupFirst == <<"normalize", "dedup", "cap", "fork">>

\* the order in which process() runs its stages
StageOrder == <<"normalize", "cap", "dedup", "fork">>

StageEntry(stage) ==
    CASE stage = "normalize" -> "normalize"
      [] stage = "cap" -> "cap_call"
      [] stage = "dedup" -> "dedup_scan"
      [] stage = "fork" -> "fork"

\* the pc at which the stage following `stage` starts
AfterStage(stage) ==
    LET i == CHOOSE j \in 1..Len(StageOrder) : StageOrder[j] = stage
    IN  StageEntry(StageOrder[i + 1])

VARIABLES
    \* the input: what the filenames and the external tools will answer
    frame_ms,       \* frame -> timestamp in its name, or NoTs
    diff_out,       \* frame -> stderr of `compare baseline frame`
    conv_ok,        \* frame -> whether `convert frame frame.jpg` writes the jpg
    \* the filesystem
    dir_exists,     \* os.path.isdir(self.video_path)
    png,            \* the ms_*.png files present
    jpg,            \* the .jpg files written
    dims,           \* frame -> its pixel dimensions
    histograms,     \* whether the analyzer's artifact exists
    \* process()
    pc, files, index, baseline,
    \* cap_frame_count()
    maxframes, frames, frame_count, pass, ret,
    \* sample_frames()
    interval, start_ms, skip_frames, first_change_time, last_bucket,
    s_frame_count, pos, s_ret,
    \* convert_to_jpeg() on jpeg_thread
    wpc, w_files, w_i,
    \* the external metrics analyzer: "idle", "running", "returned"
    analyzer,
    \* history, written but never read by the program
    del_log,        \* the deletions so far, in order: [by, frame]
    pass_log,       \* the sample_frames calls of this cap_frame_count run
    scan_log,       \* the counts cap_frame_count scanned in this run
    compared,       \* frame -> [base, match] of its frames_match call
    resized,        \* the convert calls of the normalizer: frame, outcome, old size
    decimated,      \* png and dims when jpeg_thread was started
    transcoder_in,  \* the frames convert_to_jpeg globbed
    analyzer_in,    \* the frames present when the analyzer was invoked
    stage_log,      \* the stages process() has started, in order
    run,            \* how many times the caller has run cap_frame_count
    png_at_call     \* png when cap_frame_count was last called

inputVars == <<frame_ms, diff_out, conv_ok>>
fsVars == <<dir_exists, png, jpg, dims, histograms>>
procVars == <<files, index, baseline>>
capVars == <<maxframes, frames, frame_count, pass, ret>>
sampleVars == <<interval, start_ms, skip_frames, first_change_time, last_bucket,
                s_frame_count, pos, s_ret>>
workerVars == <<wpc, w_files, w_i>>
histVars == <<del_log, pass_log, scan_log, compared, resized, decimated,
              transcoder_in, analyzer_in, stage_log, run, png_at_call>>
vars == <<inputVars, fsVars, pc, procVars, capVars, sampleVars, workerVars,
          analyzer, histVars>>

NumFrames == Len(frame_ms)
AllFrames == 1..NumFrames

\* sorted(glob.glob(os.path.join(directory, 'ms_*.png')))
Scan == SortedFrom(png, 1, NumFrames)

NotCompared == [base |-> 0, match |-> FALSE]

\* ------------------------------------------------------------- inputs
\* timestamps i * step, the upstream naming ms_000000.png, ms_000100.png, ...
Uniform(n, step) == [i \in 1..n |-> (i - 1) * step]

\* what `compare` can print: 0 or 1 differing pixels, or no number
DiffOuts == {0, 1, DiffFailed}

\* a long recording: 70 frames 100 ms apart, some of them duplicates of the
\* frame before, some on which `compare` or `convert` fails
LongRecording ==
    [ms |-> Uniform(70, 100),
     diff |-> [i \in 1..70 |-> IF i % 4 = 0 THEN 0
                                ELSE IF i % 9 = 0 THEN DiffFailed ELSE 1],
     conv |-> [i \in 1..70 |-> i % 5 # 0]]

ShortRecordings ==
    UNION {{[ms |-> Uniform(n, 100), diff |-> d, conv |-> c] :
              d \in {x \in [1..n -> DiffOuts] : n = 0 \/ x[1] = 1},
              c \in [1..n -> BOOLEAN]} : n \in 0..MaxLen}

ProcessInputs == ShortRecordings \cup {LongRecording}

\* the state of a VideoProcessing object whose methods have not run
Idle(in) ==
    /\ frame_ms = in.ms
    /\ diff_out = in.diff
    /\ conv_ok = in.conv
    /\ png = 1..Len(in.ms)
    /\ jpg = {}
    /\ histograms = FALSE
    /\ files = <<>> /\ index = 0 /\ baseline = 0
    /\ frame_count = 0
    /\ first_change_time = 0 /\ last_bucket = None
    /\ s_frame_count = 0 /\ pos = 0
    /\ wpc = "idle" /\ w_files = <<>> /\ w_i = 0
    /\ analyzer = "idle"
    /\ del_log = <<>> /\ pass_log = <<>> /\ scan_log = <<>>
    /\ compared = [i \in 1..Len(in.ms) |-> NotCompared]
    /\ resized = {}
    /\ decimated = [png |-> {}, dims |-> <<>>]
    /\ transcoder_in = {} /\ analyzer_in = {}
    /\ stage_log = <<>>

\* process() is about to be called on the task's video directory
Init ==
    \E in \in ProcessInputs, first_dim \in {1, 2} :
        /\ Idle(in)
        /\ dir_exists \in (IF Len(in.ms) = 0 THEN BOOLEAN ELSE {TRUE})
        /\ dims = [i \in 1..Len(in.ms) |-> IF i = 1 THEN first_dim ELSE 2]
        /\ pc = "start"
        /\ frames = <<>>
        /\ png_at_call = {}
        /\ maxframes = 0 /\ pass = 0 /\ ret = "none"
        /\ interval = 0 /\ start_ms = 0 /\ skip_frames = 0 /\ s_ret = "none"
        /\ run = 0

\* ------------------------------------------------------------ process()
\* os.remove(frame): the file is there and is unlinked (lines 47, 66, 155);
\* on a missing file os.remove raises, see RemoveRaises
Remove(by, frame) ==
    /\ frame \in png
    /\ png' = png \ {frame}
    /\ del_log' = Append(del_log, [by |-> by, frame |-> frame])

\* mutant: the isdir test left out
ProcessStartNoCheck ==
    /\ pc = "start"
    /\ pc' = StageEntry(StageOrder[1])
    /\ UNCHANGED <<inputVars, fsVars, procVars, capVars, sampleVars,
                   workerVars, analyzer, histVars>>

\* lines 23-25: if os.path.isdir(self.video_path)
ProcessStart ==
    /\ pc = "start"
    /\ pc' = IF dir_exists THEN StageEntry(StageOrder[1]) ELSE "done"
    /\ UNCHANGED <<inputVars, fsVars, procVars, capVars, sampleVars,
                   workerVars, analyzer, histVars>>

\* mutant: the size is read from the first frame
ResizeSizeOfFirst(fs) == dims[fs[1]]

\* lines 32-33: the size of files[1], the target of the resize
ResizeSize(fs) == dims[fs[2]]

\* lines 26-36: resize files[0] to the size of files[1]; the convert call's
\* return code is not read, so the resize may or may not have happened
Normalize ==
    /\ pc = "normalize"
    /\ files' = Scan
    /\ IF Len(Scan) > 1
       THEN \E resize_ok \in BOOLEAN :
               /\ dims' = IF resize_ok
                          THEN [dims EXCEPT ![Scan[1]] = ResizeSize(Scan)]
                          ELSE dims
               /\ resized' = resized \cup {[frame |-> Scan[1],
                                             ok |-> resize_ok,
                                             was |-> dims[Scan[1]]]}
       ELSE UNCHANGED <<dims, resized>>
    /\ stage_log' = Append(stage_log, "normalize")
    /\ pc' = AfterStage("normalize")
    /\ UNCHANGED <<inputVars, dir_exists, png, jpg, histograms, index,
                   baseline, capVars, sampleVars, workerVars, analyzer,
                   del_log, pass_log, scan_log, compared, decimated,
                   transcoder_in, analyzer_in, run, png_at_call>>

\* line 39: self.cap_frame_count(self.video_path, 50)
CapCall ==
    /\ pc = "cap_call"
    /\ maxframes' = ProcessMaxFrames
    /\ pass' = 1
    /\ ret' = AfterStage("cap")
    /\ pass_log' = <<>>
    /\ scan_log' = <<>>
    /\ png_at_call' = png
    /\ stage_log' = Append(stage_log, "cap")
    /\ pc' = "cap_scan"
    /\ UNCHANGED <<inputVars, fsVars, procVars, frames, frame_count,
                   sampleVars, workerVars, analyzer, del_log, compared,
                   resized, decimated, transcoder_in, analyzer_in, run>>

\* mutant: the loop starts at the first frame, which is identical to the
\* baseline, itself, and is removed
DedupScanFromFirst ==
    /\ pc = "dedup_scan"
    /\ files' = Scan
    /\ stage_log' = Append(stage_log, "dedup")
    /\ IF Len(Scan) > 1
       THEN /\ baseline' = Scan[1]
            /\ index' = 2
            /\ Remove("dedup", Scan[1])
            /\ pc' = "dedup_loop"
       ELSE /\ UNCHANGED <<baseline, index, png, del_log>>
            /\ pc' = AfterStage("dedup")
    /\ UNCHANGED <<inputVars, dir_exists, jpg, dims, histograms, capVars,
                   sampleVars, workerVars, analyzer, pass_log, scan_log,
                   compared, resized, decimated, transcoder_in, analyzer_in,
                   run, png_at_call>>

\* lines 40-43: the duplicate eliminator's scan
DedupScan ==
    /\ pc = "dedup_scan"
    /\ files' = Scan
    /\ stage_log' = Append(stage_log, "dedup")
    /\ IF Len(Scan) > 1
       THEN /\ baseline' = Scan[1]
            /\ index' = 2
            /\ pc' = "dedup_loop"
       ELSE /\ UNCHANGED <<baseline, index>>
            /\ pc' = AfterStage("dedup")
    /\ UNCHANGED <<inputVars, fsVars, capVars, sampleVars, workerVars,
                   analyzer, del_log, pass_log, scan_log, compared, resized,
                   decimated, transcoder_in, analyzer_in, run, png_at_call>>

\* mutant: every frame becomes the baseline, removed or not
NewBaselineAlways(match, frame) == frame

\* lines 45-49: a frame that did not match becomes the baseline
NewBaseline(match, frame) == IF match THEN baseline ELSE frame

\* lines 79-84: what `compare` prints on stderr for image1 and image2: the
\* number of differing pixels, or an error text when a file is missing
CompareErr(image1, image2) ==
    IF image1 \in png /\ image2 \in png THEN diff_out[image2] ELSE DiffFailed

\* lines 44-49: one iteration of the duplicate eliminator
DedupFrame ==
    /\ pc = "dedup_loop"
    /\ index <= Len(files)
    /\ LET frame == files[index]
           match == frames_match(CompareErr(baseline, frame), MaxDifferences)
       IN  /\ compared' = [compared EXCEPT
                              ![frame] = [base |-> baseline, match |-> match]]
           /\ baseline' = NewBaseline(match, frame)
           /\ IF match
              THEN Remove("dedup", frame)
              ELSE UNCHANGED <<png, del_log>>
    /\ index' = index + 1
    /\ UNCHANGED <<inputVars, dir_exists, jpg, dims, histograms, pc, files,
                   capVars, sampleVars, workerVars, analyzer, pass_log,
                   scan_log, resized, decimated, transcoder_in, analyzer_in,
                   stage_log,
                   run, png_at_call>>

DedupDone ==
    /\ pc = "dedup_loop"
    /\ index > Len(files)
    /\ pc' = AfterStage("dedup")
    /\ UNCHANGED <<inputVars, fsVars, procVars, capVars, sampleVars,
                   workerVars, analyzer, histVars>>

\* lines 52-53: jpeg_thread.start()
Fork ==
    /\ pc = "fork"
    /\ wpc' = "scan"
    /\ decimated' = [png |-> png, dims |-> dims]
    /\ stage_log' = Append(stage_log, "fork")
    /\ pc' = "analyze"
    /\ UNCHANGED <<inputVars, fsVars, procVars, capVars, sampleVars, w_files,
                   w_i, analyzer, del_log, pass_log, scan_log, compared,
                   resized, transcoder_in, analyzer_in, run, png_at_call>>

\* lines 56-61: subprocess.call(['python', visualmetrics, ...]) is entered
AnalyzerInvoke ==
    /\ pc = "analyze"
    /\ analyzer' = "running"
    /\ analyzer_in' = png
    /\ pc' = "analyzing"
    /\ UNCHANGED <<inputVars, fsVars, procVars, capVars, sampleVars,
                   workerVars, del_log, pass_log, scan_log, compared, resized,
                   decimated, transcoder_in, stage_log, run, png_at_call>>

\* lines 60-61: the blocking call returns; its return code is not read
AnalyzerReturn ==
    /\ pc = "analyzing"
    /\ analyzer' = "returned"
    /\ \E analyzer_ok \in BOOLEAN : histograms' = analyzer_ok
    /\ pc' = "join"
    /\ UNCHANGED <<inputVars, dir_exists, png, jpg, dims, procVars, capVars,
                   sampleVars, workerVars, histVars>>

\* mutant: the join left out
JoinNoWait == TRUE

\* jpeg_thread.join() returns once the thread has ended
JoinReady == wpc = "done"

\* line 64: jpeg_thread.join()
Join ==
    /\ pc = "join"
    /\ JoinReady
    /\ pc' = "cleanup_scan"
    /\ UNCHANGED <<inputVars, fsVars, procVars, capVars, sampleVars,
                   workerVars, analyzer, histVars>>

\* line 65: the cleanup's glob
\* mutant: the cleanup's glob matches no file
CleanupScanNoMatch ==
    /\ pc = "cleanup_scan"
    /\ files' = <<>>
    /\ index' = 1
    /\ pc' = "cleanup_loop"
    /\ UNCHANGED <<inputVars, fsVars, baseline, capVars, sampleVars,
                   workerVars, analyzer, histVars>>

\* line 65: the cleanup's glob
CleanupScan ==
    /\ pc = "cleanup_scan"
    /\ files' = Scan
    /\ index' = 1
    /\ pc' = "cleanup_loop"
    /\ UNCHANGED <<inputVars, fsVars, baseline, capVars, sampleVars,
                   workerVars, analyzer, histVars>>

\* line 66: os.remove(filepath)
CleanupFrame ==
    /\ pc = "cleanup_loop"
    /\ index <= Len(files)
    /\ Remove("cleanup", files[index])
    /\ index' = index + 1
    /\ UNCHANGED <<inputVars, dir_exists, jpg, dims, histograms, pc, files,
                   baseline, capVars, sampleVars, workerVars, analyzer,
                   pass_log, scan_log, compared, resized, decimated,
                   transcoder_in, analyzer_in, stage_log, run, png_at_call>>

CleanupDone ==
    /\ pc = "cleanup_loop"
    /\ index > Len(files)
    /\ pc' = "done"
    /\ UNCHANGED <<inputVars, fsVars, procVars, capVars, sampleVars,
                   workerVars, analyzer, histVars>>

\* ---------------------------------------------------- convert_to_jpeg()
\* line 70: the thread's glob
WorkerScan ==
    /\ wpc = "scan"
    /\ w_files' = Scan
    /\ w_i' = 1
    /\ transcoder_in' = png
    /\ wpc' = "convert"
    /\ UNCHANGED <<inputVars, fsVars, pc, procVars, capVars, sampleVars,
                   analyzer, del_log, pass_log, scan_log, compared, resized,
                   decimated, analyzer_in, stage_log, run, png_at_call>>

\* mutant: the transcoder removes each png once it has converted it
WorkerConvertAndRemove ==
    /\ wpc = "convert"
    /\ w_i <= Len(w_files)
    /\ LET src == w_files[w_i]
       IN  /\ jpg' = IF conv_ok[src] /\ src \in png
                     THEN jpg \cup {src} ELSE jpg
           /\ png' = png \ {src}
    /\ w_i' = w_i + 1
    /\ UNCHANGED <<inputVars, dir_exists, dims, histograms, pc, procVars,
                   capVars, sampleVars, wpc, w_files, analyzer, histVars>>

\* lines 71-74: convert src to dst; src is read, dst is written when the
\* tool succeeds, which it cannot when src is gone
WorkerConvert ==
    /\ wpc = "convert"
    /\ w_i <= Len(w_files)
    /\ LET src == w_files[w_i]
       IN  jpg' = IF conv_ok[src] /\ src \in png THEN jpg \cup {src} ELSE jpg
    /\ w_i' = w_i + 1
    /\ UNCHANGED <<inputVars, dir_exists, png, dims, histograms, pc, procVars,
                   capVars, sampleVars, wpc, w_files, analyzer, histVars>>

WorkerDone ==
    /\ wpc = "convert"
    /\ w_i > Len(w_files)
    /\ wpc' = "done"
    /\ UNCHANGED <<inputVars, fsVars, pc, procVars, capVars, sampleVars,
                   w_files, w_i, analyzer, histVars>>

\* --------------------------------------------------- cap_frame_count()
\* lines 93-95, 102-104, 111-113: scan the directory and, when it holds more
\* than maxframes frames, call sample_frames with the next pass's parameters
CapScan ==
    /\ pc = "cap_scan"
    /\ frames' = Scan
    /\ frame_count' = Len(Scan)
    /\ scan_log' = Append(scan_log, Len(Scan))
    /\ IF Len(Scan) > maxframes
       THEN LET p == PassParams(pass, maxframes)
            IN  /\ interval' = p.interval
                /\ start_ms' = p.start_ms
                /\ skip_frames' = p.skip_frames
                /\ pass_log' = Append(pass_log, p)
                /\ s_ret' = IF pass < MaxPasses THEN "cap_scan" ELSE "cap_end"
                /\ pass' = pass + 1
                /\ pc' = "sample_entry"
       ELSE /\ pc' = "cap_end"
            /\ UNCHANGED <<interval, start_ms, skip_frames, pass_log, s_ret,
                           pass>>
    /\ UNCHANGED <<inputVars, fsVars, procVars, maxframes, ret,
                   first_change_time, last_bucket, s_frame_count, pos,
                   workerVars, analyzer, del_log, compared, resized,
                   decimated, transcoder_in, analyzer_in, stage_log, run,
                   png_at_call>>

\* lines 120-121: the final log line, and the return to the caller
CapEnd ==
    /\ pc = "cap_end"
    /\ pc' = ret
    /\ UNCHANGED <<inputVars, fsVars, procVars, capVars, sampleVars,
                   workerVars, analyzer, histVars>>

\* ------------------------------------------------------ sample_frames()
\* lines 126-141: nothing to do for 3 frames or fewer; otherwise the time of
\* the first change is read from the second frame's name (0 when it has none)
SampleEntry ==
    /\ pc = "sample_entry"
    /\ IF Len(frames) > SampleMinFrames
       THEN /\ first_change_time' = IF frame_ms[frames[2]] # NoTs
                                     THEN frame_ms[frames[2]] ELSE 0
            /\ last_bucket' = None
            /\ s_frame_count' = 0
            /\ pos' = 1
            /\ pc' = "sample_loop"
       ELSE /\ s_frame_count' = Len(frames)
            /\ pc' = s_ret
            /\ UNCHANGED <<first_change_time, last_bucket, pos>>
    /\ UNCHANGED <<inputVars, fsVars, procVars, capVars, interval, start_ms,
                   skip_frames, s_ret, workerVars, analyzer, histVars>>

\* mutant: the last frame is not kept
SampleRemovesLastUnpinned(frame, frame_time, frame_bucket, count) ==
    /\ frame_time > first_change_time + start_ms
    /\ frame_bucket = last_bucket
    /\ frame # frames[1]
    /\ frame # frames[2]
    /\ count > skip_frames

\* mutant: the window starts at the threshold, not after it
SampleRemovesFromThreshold(frame, frame_time, frame_bucket, count) ==
    /\ frame_time >= first_change_time + start_ms
    /\ frame_bucket = last_bucket
    /\ frame # frames[1]
    /\ frame # frames[2]
    /\ frame # frames[Len(frames)]
    /\ count > skip_frames

\* mutant: the keep quota is not consulted
SampleRemovesNoQuota(frame, frame_time, frame_bucket, count) ==
    /\ frame_time > first_change_time + start_ms
    /\ frame_bucket = last_bucket
    /\ frame # frames[1]
    /\ frame # frames[2]
    /\ frame # frames[Len(frames)]

\* mutant: the bucket of the frame before is not consulted
SampleRemovesAnyBucket(frame, frame_time, frame_bucket, count) ==
    /\ frame_time > first_change_time + start_ms
    /\ frame # frames[1]
    /\ frame # frames[2]
    /\ frame # frames[Len(frames)]
    /\ count > skip_frames

\* lines 148-153: the condition under which the frame is removed;
\* count is frame_count after the frame was counted
SampleRemoves(frame, frame_time, frame_bucket, count) ==
    /\ frame_time > first_change_time + start_ms
    /\ frame_bucket = last_bucket
    /\ frame # frames[1]
    /\ frame # frames[2]
    /\ frame # frames[Len(frames)]
    /\ count > skip_frames

\* mutant: the bucket pointer is reset when a frame is removed
NextLastBucketReset(removed, frame_bucket) ==
    IF removed THEN None ELSE frame_bucket

\* line 156: last_bucket = frame_bucket, whether or not the frame was removed
NextLastBucket(removed, frame_bucket) == frame_bucket

\* mutant: a name without a timestamp is read as timestamp 0
FrameTimeOrZero(frame) ==
    IF frame_ms[frame] = NoTs THEN 0 ELSE frame_ms[frame]

\* lines 143-146: the timestamp the loop reads from the frame's name; NoTs
\* when the name does not match
FrameTime(frame) == frame_ms[frame]

\* lines 142-156: one iteration of the sampler's loop
SampleFrame ==
    /\ pc = "sample_loop"
    /\ pos <= Len(frames)
    /\ LET frame == frames[pos]
           frame_time == FrameTime(frame)
           frame_bucket == Bucket(frame_time, interval)
       IN  \/ /\ frame_time = NoTs
              /\ UNCHANGED <<png, del_log, s_frame_count, last_bucket>>
           \/ /\ frame_time # NoTs
              /\ s_frame_count' = s_frame_count + 1
              /\ LET removes == SampleRemoves(frame, frame_time,
                                               frame_bucket, s_frame_count + 1)
                 IN  /\ last_bucket' = NextLastBucket(removes, frame_bucket)
                     /\ IF removes
                        THEN Remove("sample", frame)
                        ELSE UNCHANGED <<png, del_log>>
    /\ pos' = pos + 1
    /\ UNCHANGED <<inputVars, dir_exists, jpg, dims, histograms, pc, procVars,
                   capVars, interval, start_ms, skip_frames,
                   first_change_time, s_ret, workerVars, analyzer, pass_log,
                   scan_log, compared, resized, decimated, transcoder_in,
                   analyzer_in, stage_log, run, png_at_call>>

SampleReturn ==
    /\ pc = "sample_loop"
    /\ pos > Len(frames)
    /\ pc' = s_ret
    /\ UNCHANGED <<inputVars, fsVars, procVars, capVars, sampleVars,
                   workerVars, analyzer, histVars>>

\* ------------------------------------------------------- specifications
Next ==
    \/ ProcessStart \/ Normalize \/ CapCall
    \/ CapScan \/ CapEnd \/ SampleEntry \/ SampleFrame \/ SampleReturn
    \/ DedupScan \/ DedupFrame \/ DedupDone
    \/ Fork \/ AnalyzerInvoke \/ AnalyzerReturn \/ Join
    \/ CleanupScan \/ CleanupFrame \/ CleanupDone
    \/ WorkerScan \/ WorkerConvert \/ WorkerDone

Spec == Init /\ [][Next]_vars

\* ------------------------------------------- an interfering environment
\* how many single frame files the environment removes during a run
MaxEnvRemovals == 1

\* process() has been called and has neither returned nor raised
Running == pc \notin {"start", "done", "crashed"}

\* another process unlinks a frame file while process() runs (explored on
\* the short recordings only; on every recording the directory can go)
EnvRemoveFrame ==
    /\ Running
    /\ NumFrames <= MaxLen
    /\ Cardinality({i \in 1..Len(del_log) : del_log[i].by = "env"})
          < MaxEnvRemovals
    /\ \E frame \in png : Remove("env", frame)
    /\ UNCHANGED <<inputVars, dir_exists, jpg, dims, histograms, pc, procVars,
                   capVars, sampleVars, workerVars, analyzer, pass_log,
                   scan_log, compared, resized, decimated, transcoder_in,
                   analyzer_in, stage_log, run, png_at_call>>

\* another process removes the directory and all it holds while process()
\* runs
EnvRemoveDir ==
    /\ Running
    /\ dir_exists
    /\ dir_exists' = FALSE
    /\ png' = {}
    /\ jpg' = {}
    /\ UNCHANGED <<inputVars, dims, histograms, pc, procVars, capVars,
                   sampleVars, workerVars, analyzer, histVars>>

\* the path the next os.remove of process() is about to be given: the
\* cleanup's (line 66) or the sampler's (line 155); None when the next step
\* removes nothing
NextRemoval ==
    IF pc = "cleanup_loop" /\ index <= Len(files) THEN files[index]
    ELSE IF /\ pc = "sample_loop"
            /\ pos <= Len(frames)
            /\ FrameTime(frames[pos]) # NoTs
            /\ SampleRemoves(frames[pos], FrameTime(frames[pos]),
                             Bucket(FrameTime(frames[pos]), interval),
                             s_frame_count + 1)
         THEN frames[pos]
    ELSE None

\* lines 66, 155: os.remove on a path that is gone raises OSError, which
\* nothing in process() catches: the call ends with the exception
RemoveRaises ==
    /\ NextRemoval # None
    /\ NextRemoval \notin png
    /\ pc' = "crashed"
    /\ UNCHANGED <<inputVars, fsVars, procVars, capVars, sampleVars,
                   workerVars, analyzer, histVars>>

NextEnv == Next \/ EnvRemoveFrame \/ EnvRemoveDir \/ RemoveRaises

SpecEnv == Init /\ [][NextEnv]_vars

\* the steps of the thread that runs process(); the analyzer's return among
\* them, since process() blocks in subprocess.call until the tool returns
Orchestrator ==
    \/ ProcessStart \/ Normalize \/ CapCall
    \/ CapScan \/ CapEnd \/ SampleEntry \/ SampleFrame \/ SampleReturn
    \/ DedupScan \/ DedupFrame \/ DedupDone
    \/ Fork \/ AnalyzerInvoke \/ AnalyzerReturn \/ Join
    \/ CleanupScan \/ CleanupFrame \/ CleanupDone

\* the steps of jpeg_thread
Worker == WorkerScan \/ WorkerConvert \/ WorkerDone

\* both threads are scheduled and every tool call returns
SpecFair == Spec /\ WF_vars(Orchestrator) /\ WF_vars(Worker)

\* ------------------------------- cap_frame_count and sample_frames alone
\* timestamps around the passes' bucket and window boundaries: 3000 lies
\* inside the first pass's window only; 11100 and 11150 share a 100 ms
\* bucket, 11100 and 11400 a 500 ms bucket, 11400 and 11600 a 1000 ms bucket
TimeSet == {0, 3000, 11100, 11150, 11400, 11600}

\* directories in filename order: the timestamps do not decrease (the names
\* are zero-padded upstream) and at most one name has no timestamp
CapDirs ==
    UNION {{ms \in [1..n -> TimeSet \cup {NoTs}] :
              /\ \A i, j \in 1..n :
                    (i < j /\ ms[i] # NoTs /\ ms[j] # NoTs) => ms[i] <= ms[j]
              /\ Cardinality({i \in 1..n : ms[i] = NoTs}) <= 1} :
           n \in 0..MaxCapLen}
    \cup {<<0, 50, 3000>>}

Intervals == {100, 1000}
Starts == {0, 300}

CapInput(ms) ==
    /\ Idle([ms |-> ms, diff |-> [i \in 1..Len(ms) |-> 1],
             conv |-> [i \in 1..Len(ms) |-> TRUE]])
    /\ dir_exists = TRUE
    /\ dims = [i \in 1..Len(ms) |-> 2]

\* a caller is about to run cap_frame_count(directory, m)
InitCapCall ==
    \E ms \in CapDirs, m \in 0..MaxTarget :
        /\ CapInput(ms)
        /\ frames = <<>>
        /\ png_at_call = 1..Len(ms)
        /\ maxframes = m /\ pass = 1 /\ ret = "caller"
        /\ interval = 0 /\ start_ms = 0 /\ skip_frames = 0 /\ s_ret = "none"
        /\ run = 1
        /\ pc = "cap_scan"

\* a caller is about to run sample_frames(frames, iv, st, sk) on a scan
InitSampleCall ==
    \E ms \in CapDirs, iv \in Intervals, st \in Starts, sk \in 0..MaxSkip :
        /\ CapInput(ms)
        /\ frames = [i \in 1..Len(ms) |-> i]
        /\ png_at_call = 1..Len(ms)
        /\ maxframes = 0 /\ pass = 0 /\ ret = "none"
        /\ interval = iv /\ start_ms = st /\ skip_frames = sk
        /\ s_ret = "caller"
        /\ run = 0
        /\ pc = "sample_entry"

\* recordings long enough for the target of process(), 50 frames
\* five frames in each 100 ms bucket of the first 2000 ms (100 frames), then
\* a tail of one frame every 500 ms
Clustered(tail) ==
    [i \in 1..(100 + tail) |->
        IF i <= 100
        THEN ((i - 1) \div 5) * 100 + ((i - 1) % 5) * 20
        ELSE 2000 + (i - 101) * 500]

TailLengths == {10, 30}

LongDirs == {Uniform(70, 100)} \cup {Clustered(t) : t \in TailLengths}

\* a caller is about to run cap_frame_count(directory, 50) on a long
\* recording, as process() does
InitLongCapCall ==
    \E ms \in LongDirs :
        /\ CapInput(ms)
        /\ frames = <<>>
        /\ png_at_call = 1..Len(ms)
        /\ maxframes = ProcessMaxFrames /\ pass = 1 /\ ret = "caller"
        /\ interval = 0 /\ start_ms = 0 /\ skip_frames = 0 /\ s_ret = "none"
        /\ run = 1
        /\ pc = "cap_scan"

InitCap == InitCapCall \/ InitSampleCall \/ InitLongCapCall

\* the caller runs cap_frame_count a second time with the same maxframes
CapAgain ==
    /\ pc = "caller"
    /\ run = 1
    /\ run' = 2
    /\ pass' = 1
    /\ pass_log' = <<>>
    /\ scan_log' = <<>>
    /\ png_at_call' = png
    /\ pc' = "cap_scan"
    /\ UNCHANGED <<inputVars, fsVars, procVars, maxframes, frames,
                   frame_count, ret, sampleVars, workerVars, analyzer,
                   del_log, compared, resized, decimated, transcoder_in,
                   analyzer_in, stage_log>>

NextCap ==
    \/ CapScan \/ CapEnd \/ SampleEntry \/ SampleFrame \/ SampleReturn
    \/ CapAgain

SpecCap == InitCap /\ [][NextCap]_vars

\* ======================================================== properties
DeletedBy(by) ==
    {del_log[i].frame : i \in {j \in 1..Len(del_log) : del_log[j].by = by}}

IsPrefix(s, t) ==
    /\ Len(s) <= Len(t)
    /\ \A i \in 1..Len(s) : s[i] = t[i]

CleanupStarted ==
    \/ pc \in {"cleanup_scan", "cleanup_loop"}
    \/ DeletedBy("cleanup") # {}

\* C1: the cleanup that deletes the surviving png frames starts only after
\* the transcoder thread has finished and the analyzer call has returned.
C1_CleanupAfterJoin ==
    CleanupStarted => (wpc = "done" /\ analyzer = "returned")

\* the cleanup has deleted a frame and has more to delete, after the
\* transcoder wrote a jpg
C1_Witness ==
    /\ pc = "cleanup_loop"
    /\ DeletedBy("cleanup") # {}
    /\ png # {}
    /\ jpg # {}
    /\ DeletedBy("dedup") # {}

AfterFork ==
    {"analyze", "analyzing", "join", "cleanup_scan", "cleanup_loop", "done"}

\* C2: the transcoder and the analyzer start only when every deletion of the
\* capper and the duplicate eliminator is done; from the fork to the join no
\* png frame is deleted or rewritten; so the frames the transcoder converts
\* are the frames the analyzer is given, the survivors of the decimation.
C2_SameSurvivors ==
    /\ (wpc # "idle" \/ analyzer # "idle") =>
          /\ pc \in AfterFork
          /\ decimated.png =
                AllFrames \ (DeletedBy("sample") \cup DeletedBy("dedup"))
    /\ pc \in {"analyze", "analyzing", "join"} =>
          /\ png = decimated.png
          /\ dims = decimated.dims
    /\ wpc \in {"convert", "done"} =>
          /\ transcoder_in = decimated.png
          /\ Range(w_files) = decimated.png
    /\ analyzer # "idle" => analyzer_in = decimated.png

\* both have run to their end on a set that the capper and the duplicate
\* eliminator have both reduced
C2_Witness ==
    /\ pc = "join"
    /\ wpc = "done"
    /\ analyzer = "returned"
    /\ DeletedBy("sample") # {}
    /\ DeletedBy("dedup") # {}
    /\ transcoder_in # {}
    /\ jpg # {}

DeletionRank(by) ==
    CASE by = "sample" -> 1
      [] by = "dedup" -> 2
      [] by = "cleanup" -> 3

\* C3 as stated: the stages start in the order normalize, duplicate
\* eliminator, capper, fork, and no duplicate is deleted after a sampler
\* deletion.
C3_DedupBeforeCap ==
    /\ IsPrefix(stage_log, <<"normalize", "dedup", "cap", "fork">>)
    /\ \A i, j \in 1..Len(del_log) :
          (i < j) => ~(del_log[i].by = "sample" /\ del_log[j].by = "dedup")

\* C3 amended: the stages start in the order normalize, capper, duplicate
\* eliminator, fork; every deletion of the capper precedes every deletion of
\* the duplicate eliminator, which precedes every deletion of the cleanup.
C3_CapBeforeDedup ==
    /\ IsPrefix(stage_log, <<"normalize", "cap", "dedup", "fork">>)
    /\ \A i, j \in 1..Len(del_log) :
          (i < j) => DeletionRank(del_log[i].by) <= DeletionRank(del_log[j].by)
    /\ pc \in {"dedup_scan", "dedup_loop"} =>
          stage_log[Len(stage_log)] \in {"cap", "dedup"}

\* the fork is reached after the capper and then the eliminator deleted frames
C3_Witness ==
    /\ pc = "fork"
    /\ stage_log = <<"normalize", "cap", "dedup">>
    /\ DeletedBy("sample") # {}
    /\ DeletedBy("dedup") # {}

\* ------------------------------------------------- sample_frames claims
\* the sampler's loop has visited every frame of its input
SampleFinished == pc = "sample_loop" /\ pos > Len(frames)

Pinned == {1, 2, Len(frames)} \cap (1..Len(frames))

\* C4: a call of sample_frames never deletes the first, the second or the
\* last frame of the sequence it is given (frames is the input of the latest
\* call, or the scan that followed it).
C4_PinnedKept ==
    \A k \in Pinned : frames[k] \in png

HasTs(k) == frame_ms[frames[k]] # NoTs
\* the timestamp the specification gives frame k: 0 when its name has none
SpecTs(k) == IF HasTs(k) THEN frame_ms[frames[k]] ELSE 0
Threshold == SpecTs(2) + start_ms
\* the frames before k whose name has a timestamp
TimedBefore(k) == {j \in 1..(k - 1) : HasTs(j)}
Max(S) == CHOOSE x \in S : \A y \in S : y <= x
\* how many frames with a timestamp the loop has counted when it is at k
Visited(k) == Cardinality({j \in 1..k : HasTs(j)})

\* the call is over, it deleted a frame, and its last frame, which is in the
\* bucket of the frame before it, past the threshold and past the quota, was
\* kept
C4_Witness ==
    /\ SampleFinished
    /\ \E k \in 1..Len(frames) : frames[k] \notin png
    /\ LET n == Len(frames)
       IN  /\ HasTs(n) /\ HasTs(n - 1)
           /\ frame_ms[frames[n]] > Threshold
           /\ Bucket(frame_ms[frames[n]], interval) =
                 Bucket(frame_ms[frames[n - 1]], interval)
           /\ Visited(n) > skip_frames
           /\ frames[n] \in png

\* C5 as stated: after a pass over more than 3 frames, frame k is deleted iff
\* its timestamp (0 for a name without one) is above the threshold, its
\* bucket is the bucket of frame k-1, it is not the first, second or last
\* frame, and k is above the keep quota.
C5_DeletedIffAsStated ==
    SampleFinished =>
        \A k \in 1..Len(frames) :
            (frames[k] \notin png) <=>
                /\ k \notin Pinned
                /\ SpecTs(k) > Threshold
                /\ Bucket(SpecTs(k), interval) = Bucket(SpecTs(k - 1), interval)
                /\ k > skip_frames

\* C5 amended: after a pass over more than 3 frames, frame k is deleted iff
\* its name has a timestamp, that timestamp is above the threshold, its
\* bucket is the bucket of the nearest frame before it whose name has a
\* timestamp (deleted or not), it is not the first, second or last frame,
\* and the number of frames with a timestamp up to and including k is above
\* the keep quota.
C5_DeletedIff ==
    SampleFinished =>
        \A k \in 1..Len(frames) :
            (frames[k] \notin png) <=>
                /\ HasTs(k)
                /\ k \notin Pinned
                /\ frame_ms[frames[k]] > Threshold
                /\ TimedBefore(k) # {}
                /\ Bucket(frame_ms[frames[k]], interval) =
                      Bucket(frame_ms[frames[Max(TimedBefore(k))]], interval)
                /\ Visited(k) > skip_frames

\* a pass deleted two frames in a row, and a frame of its input has no
\* timestamp
C5_Witness ==
    /\ SampleFinished
    /\ \E k \in 2..Len(frames) : frames[k] \notin png /\ frames[k - 1] \notin png
    /\ \E k \in 1..Len(frames) : ~HasTs(k)
    /\ skip_frames > 0

\* C6: sample_frames deletes nothing from 3 frames or fewer, so
\* cap_frame_count on a directory of at most 3 frames that is above
\* maxframes runs its three passes and leaves every frame in place.
C6_ThreeFramesKept ==
    NumFrames <= 3 =>
        /\ png = AllFrames
        /\ del_log = <<>>
        /\ (pc = "caller" /\ run >= 1 /\ NumFrames > maxframes) =>
              Len(pass_log) = 3

\* the directory 0, 50, 3000 ms with maxframes = 1, after its first run
C6_Witness ==
    /\ frame_ms = <<0, 50, 3000>>
    /\ maxframes = 1
    /\ pc = "caller"
    /\ run = 1
    /\ Len(pass_log) = 3
    /\ scan_log = <<3, 3, 3>>
    /\ png = {1, 2, 3}

\* --------------------------------------------- cap_frame_count claims
C7_Passes(m) ==
    <<[interval |-> 100, start_ms |-> 0, skip_frames |-> (2 * m) \div 10],
      [interval |-> 500, start_ms |-> 5000, skip_frames |-> (4 * m) \div 10],
      [interval |-> 1000, start_ms |-> 10000, skip_frames |-> (6 * m) \div 10]>>

CapReturned == pc \in {"cap_end", "caller"} /\ run >= 1

\* C7: the passes run in the order (100, 0, 0.2 m), (500, 5000, 0.4 m),
\* (1000, 10000, 0.6 m), each after a scan that counted more than maxframes
\* frames; at most three run; the capper ends before its third pass only on
\* a scan of at most maxframes frames, and deletes nothing after that scan.
C7_ForwardPasses ==
    run >= 1 =>
        /\ IsPrefix(pass_log, C7_Passes(maxframes))
        /\ Len(pass_log) <= Len(scan_log)
        /\ Len(scan_log) <= Len(pass_log) + 1
        /\ \A k \in 1..Len(pass_log) : scan_log[k] > maxframes
        /\ Len(scan_log) > Len(pass_log) =>
              /\ scan_log[Len(scan_log)] <= maxframes
              /\ Cardinality(png) = scan_log[Len(scan_log)]
              /\ pc \in {"cap_end", "caller"}
        /\ (CapReturned /\ Len(pass_log) < 3) =>
              Len(scan_log) = Len(pass_log) + 1
        /\ pass = Len(pass_log) + 1

\* three passes have run, the third one deleted a frame, and the directory
\* still holds more than maxframes frames
C7_Witness ==
    /\ pc = "cap_end"
    /\ run = 1
    /\ Len(pass_log) = 3
    /\ Cardinality(png) > maxframes
    /\ Cardinality(png) < scan_log[3]

\* C8: a second run of cap_frame_count with the same maxframes, on the
\* directory its first run left, deletes no frame.
C8_Idempotent ==
    run = 2 => png = png_at_call

\* the second run is over; the first deleted frames and left more than
\* maxframes, so the second ran its three passes
C8_Witness ==
    /\ pc = "caller"
    /\ run = 2
    /\ png_at_call # AllFrames
    /\ Cardinality(png) > maxframes
    /\ Len(pass_log) = 3
    /\ Len(frames) > 3

\* -------------------------------------------------- process() claims
\* C9: the duplicate eliminator keeps the first frame of its input and
\* leaves an input of 0 or 1 frames as it is; when it is done, every
\* survivor but the first was compared against the survivor before it and
\* `compare` did not report them equal.
C9_RollingBaseline ==
    pc = "fork" =>
        /\ Len(files) >= 1 => files[1] \in png
        /\ Len(files) <= 1 => (png = Range(files) /\ DeletedBy("dedup") = {})
        /\ \A k \in 2..Len(Scan) :
              /\ compared[Scan[k]].base = Scan[k - 1]
              /\ diff_out[Scan[k]] # 0

\* the eliminator is done; it deleted a frame that lies between two
\* survivors
C9_Witness ==
    /\ pc = "fork"
    /\ \E k \in 2..Len(Scan) :
          \E f \in DeletedBy("dedup") : Scan[k - 1] < f /\ f < Scan[k]

\* C10: when the directory does not exist, process() ends without scanning,
\* resizing or deleting anything, without starting the transcoder and
\* without invoking the analyzer.
C10_MissingDirNoOp ==
    ~dir_exists =>
        /\ pc \in {"start", "done"}
        /\ wpc = "idle"
        /\ analyzer = "idle"
        /\ del_log = <<>>
        /\ resized = {}
        /\ jpg = {}
        /\ ~histograms
        /\ stage_log = <<>>
        /\ scan_log = <<>>
        /\ files = <<>>

\* process() has returned from a call on a missing directory
C10_Witness ==
    /\ ~dir_exists
    /\ pc = "done"

\* ------------------------------------------- frames without a timestamp
\* the last frame before position k whose name has a timestamp sets the
\* bucket pointer the loop holds when it reaches k
BucketBefore(k) ==
    IF TimedBefore(k) = {}
    THEN None
    ELSE Bucket(frame_ms[frames[Max(TimedBefore(k))]], interval)

\* C12 as stated: a frame whose name has no parseable timestamp takes part
\* in the walk with timestamp 0: every frame the loop has passed is counted
\* and the bucket pointer is the bucket of the frame just passed, bucket 0
\* after a frame without a timestamp.
C12_TreatedAsZero ==
    (pc = "sample_loop" /\ pos > 1) =>
        /\ s_frame_count = pos - 1
        /\ last_bucket = Bucket(SpecTs(pos - 1), interval)

\* C12: a frame whose name has no parseable timestamp is skipped by the
\* walk: it is not counted, the bucket pointer stays the bucket of the last
\* frame with a timestamp, and the frame is never deleted; timestamp 0 is
\* used only for the threshold, when the second frame is such a frame.
C12_SkippedByWalk ==
    pc = "sample_loop" =>
        /\ s_frame_count = Visited(pos - 1)
        /\ last_bucket = BucketBefore(pos)
        /\ first_change_time = SpecTs(2)
        /\ \A k \in 1..Len(frames) : ~HasTs(k) => frames[k] \in png

\* the loop has passed an unpinned frame without a timestamp that follows a
\* frame of a bucket other than 0, and has deleted the frame after it
C12_Witness ==
    /\ pc = "sample_loop"
    /\ \E k \in 3..(Len(frames) - 2) :
          /\ ~HasTs(k)
          /\ pos > k + 1
          /\ BucketBefore(k) # None
          /\ BucketBefore(k) # 0
          /\ frames[k + 1] \in DeletedBy("sample")

\* ------------------------------------------------- long recordings
\* the first run of cap_frame_count is back from its first pass
AfterPassOne == run = 1 /\ pc = "cap_scan" /\ pass = 2

\* the directory holds the frames of ms, in this order
Holds(ms) ==
    /\ NumFrames = Len(ms)
    /\ \A i \in 1..Len(ms) : frame_ms[i] = ms[i]

UniformSeventy ==
    /\ Holds(Uniform(70, 100))
    /\ maxframes = ProcessMaxFrames
    /\ run = 1

\* C14 as stated: with 70 frames 100 ms apart and the target 50 the first
\* pass alone brings the count to 50 or less and no second pass is made.
C14_PassOneSuffices ==
    UniformSeventy =>
        /\ AfterPassOne => Cardinality(png) <= ProcessMaxFrames
        /\ Len(pass_log) <= 1

\* C14: with 70 frames 100 ms apart (0, 100, ..., 6900) and the target 50
\* the first pass deletes no frame, every frame being alone in its 100 ms
\* bucket; the second and the third pass are made; the second deletes 14
\* frames, all past 5100 ms, the third none, and 56 frames are left.
C14_ThreePasses ==
    UniformSeventy =>
        /\ AfterPassOne => png = AllFrames
        /\ CapReturned =>
              /\ scan_log = <<70, 70, 56>>
              /\ Len(pass_log) = 3
              /\ Cardinality(png) = 56
              /\ \A f \in AllFrames \ png : frame_ms[f] > 5100

\* cap_frame_count has returned from the 70-frame recording
C14_Witness ==
    /\ UniformSeventy
    /\ CapReturned
    /\ Cardinality(png) = 56

\* the recording is the clustered one with a tail of t frames, and the
\* caller asked for 50 frames
ClusteredWith(t) ==
    /\ Holds(Clustered(t))
    /\ maxframes = ProcessMaxFrames
    /\ run = 1

\* the frames of the tail, and the survivors of dense bucket b
TailOf(t) == 101..(100 + t)
DenseSurvivors(b) == {f \in png : f <= 100 /\ Bucket(frame_ms[f], 100) = b}

\* C15 as stated: on the clustered recording the first pass leaves exactly
\* one frame in each dense 100 ms bucket, deletes no frame of the tail and
\* leaves 50 frames or less, and no second pass is made.
C15_OnePerDenseBucket ==
    \A t \in TailLengths :
        ClusteredWith(t) =>
            /\ AfterPassOne =>
                  /\ \A b \in 0..19 : Cardinality(DenseSurvivors(b)) = 1
                  /\ TailOf(t) \subseteq png
                  /\ Cardinality(png) <= ProcessMaxFrames
            /\ Len(pass_log) <= 1

\* C15: on the clustered recording the first pass keeps all five frames of
\* the first two dense buckets, which are the 10 frames of its keep quota,
\* leaves exactly one frame in each of the other 18 dense buckets and deletes
\* no frame of the tail, so that 28 frames and the tail are left; a second
\* pass is made exactly when that is more than 50.
C15_QuotaBucketsKept ==
    \A t \in TailLengths :
        ClusteredWith(t) =>
            /\ AfterPassOne =>
                  /\ \A b \in 0..19 :
                        Cardinality(DenseSurvivors(b)) = IF b < 2 THEN 5 ELSE 1
                  /\ TailOf(t) \subseteq png
                  /\ Cardinality(png) = 28 + t
            /\ CapReturned => (Len(pass_log) = 1 <=> 28 + t <= ProcessMaxFrames)

\* cap_frame_count has returned from a clustered recording after one pass
\* that deleted frames
C15_Witness ==
    \E t \in TailLengths :
        /\ ClusteredWith(t)
        /\ CapReturned
        /\ Len(pass_log) = 1
        /\ Cardinality(png) = 28 + t

\* ------------------------------------------- what one sampler pass leaves
\* the positions the specification calls later frames: past the keep quota
\* and past the threshold
LaterAsStated ==
    {k \in 1..Len(frames) : k > skip_frames /\ SpecTs(k) > Threshold}

\* the later frames the loop can delete: the timestamped frames counted past
\* the keep quota, past the threshold, other than the pinned last frame
LaterUnpinned ==
    {k \in 1..(Len(frames) - 1) :
        HasTs(k) /\ Visited(k) > skip_frames /\ SpecTs(k) > Threshold}

\* every frame within the keep quota or not past the threshold is present
EarlyFramesKept ==
    \A k \in 1..Len(frames) :
        (k <= skip_frames \/ SpecTs(k) <= Threshold) => frames[k] \in png

\* at most one frame of K survives in each bucket
OnePerBucket(K) ==
    \A j, k \in K :
        (j < k /\ frames[j] \in png /\ frames[k] \in png)
            => Bucket(SpecTs(j), interval) # Bucket(SpecTs(k), interval)

\* C18 as stated: after one pass every frame at a position within the keep
\* quota or with a timestamp not past the threshold is present, and among
\* the later frames at most one frame per bucket survives.
C18_OnePerBucketAmongLater ==
    SampleFinished => (EarlyFramesKept /\ OnePerBucket(LaterAsStated))

\* C18: after one pass every frame at a position within the keep quota or
\* with a timestamp not past the threshold is present, and among the later
\* frames other than the last frame of the sequence at most one frame per
\* bucket survives; the last frame survives whatever its bucket.
C18_OnePerBucketButLast ==
    SampleFinished =>
        /\ EarlyFramesKept
        /\ OnePerBucket(LaterUnpinned)
        /\ Len(frames) > 0 => frames[Len(frames)] \in png

\* a pass has deleted a later frame and kept the last frame in the bucket of
\* a surviving later frame
C18_Witness ==
    /\ SampleFinished
    /\ DeletedBy("sample") # {}
    /\ Len(frames) \in LaterAsStated
    /\ \E j \in LaterUnpinned :
          /\ frames[j] \in png
          /\ Bucket(SpecTs(j), interval) = Bucket(SpecTs(Len(frames)), interval)

\* ------------------------------------------------- singleton buckets
\* no frame is in the bucket of the frame just before it in the sequence,
\* a name without a timestamp counting as timestamp 0
NoAdjacentShare ==
    \A k \in 2..Len(frames) :
        Bucket(SpecTs(k), interval) # Bucket(SpecTs(k - 1), interval)

\* no timestamped frame is in the bucket of the nearest timestamped frame
\* before it
NoTimedShare ==
    \A k \in 2..Len(frames) :
        HasTs(k) => Bucket(frame_ms[frames[k]], interval) # BucketBefore(k)

\* the pass was given every frame of the directory and is over
WholePassOver ==
    /\ SampleFinished
    /\ run = 0
    /\ Len(frames) = NumFrames

\* C19 as stated: when no two consecutive frames of the input are in the
\* same bucket, a pass deletes no frame, whatever the window start and the
\* keep quota.
C19_NoAdjacentShareNoDeletion ==
    (WholePassOver /\ NoAdjacentShare) => png = AllFrames

\* C19: when no frame with a timestamp is in the bucket of the nearest frame
\* with a timestamp before it (frames whose name has no timestamp being
\* passed over), a pass deletes no frame, whatever the window start and the
\* keep quota.
C19_NoTimedShareNoDeletion ==
    (WholePassOver /\ NoTimedShare) => png = AllFrames

\* a pass over more than three frames, all past the threshold and the quota
\* from the third on, each alone in its bucket, is over
C19_Witness ==
    /\ WholePassOver
    /\ NoTimedShare
    /\ Len(frames) > SampleMinFrames
    /\ skip_frames = 0
    /\ \A k \in 3..Len(frames) : HasTs(k) /\ SpecTs(k) > Threshold
    /\ png = AllFrames

\* ------------------------------------------------------- the normalizer
\* C16: the normalizer's step deletes no frame, leaves every frame other
\* than the first as it is and hands over to the next stage; with two
\* frames or more it runs one resize on the first frame, which then has the
\* second frame's dimensions if the resize succeeded and its old dimensions
\* if it failed; with fewer than two frames it does nothing; no other step
\* changes a frame's dimensions.
C16_NormalizerStep ==
    [][/\ pc # "normalize" => dims' = dims
       /\ pc = "normalize" =>
             /\ png' = png
             /\ pc' = "cap_call"
             /\ \A f \in AllFrames \ {1} : dims'[f] = dims[f]
             /\ IF NumFrames >= 2
                THEN \E r \in resized' :
                        /\ resized' = {r}
                        /\ r.frame = 1
                        /\ r.ok => dims'[1] = dims[2]
                        /\ ~r.ok => dims'[1] = dims[1]
                ELSE dims' = dims /\ resized' = resized /\ resized = {}]_vars

\* the resize of a first frame of another size succeeded and the pipeline
\* went on
C16_Witness ==
    /\ pc = "cap_call"
    /\ \E r \in resized : r.ok /\ r.was # dims[2] /\ dims[1] = dims[2]

\* the resize of a first frame of another size failed and process() went on
\* to its end
C16_FailedResizeWitness ==
    /\ pc = "done"
    /\ \E r \in resized : ~r.ok /\ dims[1] = r.was /\ dims[1] # dims[2]

\* ------------------------------------------- the duplicate eliminator
\* the positions of the eliminator's scan that its loop has passed
DedupPassed ==
    IF pc = "dedup_loop" THEN 2..(index - 1) ELSE 2..Len(files)

\* the baseline the claim gives position k: the last frame before k that
\* was not reported identical to its own baseline, the first frame if none
ExpectedBaseline(k) ==
    files[Max({j \in 1..(k - 1) : j = 1 \/ diff_out[files[j]] # 0})]

\* C17: the eliminator is one forward scan from the second frame with a
\* rolling baseline that starts as the first frame: a frame is deleted, and
\* the baseline kept, exactly when `compare` succeeded and reported 0
\* differing pixels against the current baseline; any other frame, one whose
\* comparison failed included, is retained and becomes the baseline; the
\* first frame and the frames not yet reached have not been compared, and a
\* frame that was passed keeps the one comparison it had.
C17_ForwardScan ==
    pc \in {"dedup_loop", "fork"} =>
        /\ \A k \in DedupPassed :
              /\ compared[files[k]].base = ExpectedBaseline(k)
              /\ compared[files[k]].match <=> diff_out[files[k]] = 0
              /\ files[k] \in DeletedBy("dedup") <=> diff_out[files[k]] = 0
              /\ files[k] \in png <=> diff_out[files[k]] # 0
        /\ (pc = "dedup_loop" /\ index <= Len(files)) =>
              baseline = ExpectedBaseline(index)
        /\ \A k \in (1..Len(files)) \ DedupPassed :
              /\ compared[files[k]] = NotCompared
              /\ files[k] \in png

\* the eliminator is done: it deleted a frame identical to its baseline and
\* kept a frame whose comparison failed, against which the next frame was
\* compared
C17_Witness ==
    /\ pc = "fork"
    /\ \E k \in 2..(Len(files) - 1) :
          /\ diff_out[files[k]] = DiffFailed
          /\ files[k] \in png
          /\ compared[files[k + 1]].base = files[k]
    /\ \E k \in 2..Len(files) :
          diff_out[files[k]] = 0 /\ files[k] \notin png

\* ------------------------------------------------- the whole decimation
\* C20: from the call of process() until its cleanup the frames in the
\* directory are the initial frames less the frames the sampler and the
\* eliminator deleted, and the first frame of the initial sequence is among
\* them; so, when the directory held a frame at the start, what the
\* transcoder and the analyzer are handed is not empty and holds that first
\* frame.
C20_FirstFrameSurvives ==
    (dir_exists /\ NumFrames >= 1) =>
        /\ 1 \notin DeletedBy("sample") \cup DeletedBy("dedup")
        /\ ~CleanupStarted =>
              /\ png = AllFrames \ (DeletedBy("sample") \cup DeletedBy("dedup"))
              /\ 1 \in png
        /\ pc \in AfterFork => 1 \in decimated.png
        /\ wpc \in {"convert", "done"} => 1 \in transcoder_in
        /\ analyzer # "idle" => 1 \in analyzer_in

\* the decimation is over: the second and the last frame of the initial
\* sequence were deleted and the first frame is there
C20_Witness ==
    /\ pc = "fork"
    /\ NumFrames >= 3
    /\ 2 \notin png
    /\ NumFrames \notin png
    /\ 1 \in png

C13_NoCrash == pc # "crashed"

\* C13, second half: once the environment has removed the directory,
\* process() performs no further effect on frames: it deletes none.
C13_NoEffectAfterRemoval ==
    [][~dir_exists => del_log' = del_log]_vars
====
